---- MODULE Spec2Model ----
(***************************************************************************)
(* A model of utils.py: load_data, to_one_hot, standardize, plot_dataset   *)
(* and train_visualization.                                                *)
(*                                                                         *)
(* Numbers.  Tensor elements are exact values q * sqrt(s) with q and s     *)
(* rationals (normalised pairs <<num, den>>), plus nan, inf and -inf for   *)
(* the results of a division by zero.  Floating-point rounding is not      *)
(* modelled: arithmetic is exact.                                          *)
(*                                                                         *)
(* Tensors live in a heap indexed by reference, so that an in-place        *)
(* operation and a copy can be told apart.  The plotting library keeps a   *)
(* list of figures and a current figure, as matplotlib.pyplot does.        *)
(***************************************************************************)
EXTENDS Integers, Sequences, FiniteSets, TLC

VARIABLES
    pc,         \* position of the running function
    plotting,   \* load_data's argument
    heap,       \* reference -> tensor contents (<<>> while unassigned)
    rawTrain,   \* history: the training points as generated by uniform_
    rawTest,    \* history: the test points as generated by uniform_
    mean_,      \* load_data's local mean_
    std_,       \* load_data's local std_
    ret,        \* references returned so far by load_data's return expression
    figs,       \* pyplot: the figures, each a sequence of artists
    cur,        \* pyplot: index of the current figure, 0 when there is none
    files,      \* file name -> figure contents saved there (<<>> when absent)
    losses,     \* train_visualization's argument
    tvX,        \* train_visualization's argument testX
    tvY,        \* train_visualization's argument testY
    pred,       \* train_visualization's local pred
    b,          \* train_visualization's masks b00, b01, b10, b11
    conf,       \* train_visualization's local conf
    oh_y,       \* to_one_hot's argument, when called on its own
    oh_Y        \* to_one_hot's result, when called on its own

vars == <<pc, plotting, heap, rawTrain, rawTest, mean_, std_, ret, figs, cur,
          files, losses, tvX, tvY, pred, b, conf, oh_y, oh_Y>>

ldVars == <<plotting, heap, rawTrain, rawTest, mean_, std_, ret>>
pltVars == <<figs, cur, files>>
tvVars == <<losses, tvX, tvY, pred, b, conf>>
ohVars == <<oh_y, oh_Y>>

----------------------------------------------------------------------------
\* Bounds

\* Number of points per set (the program generates 1000).
N == 2

\* Largest number of epochs in the loss history.
MaxEpochs == 1

\* Largest class vector handed to to_one_hot on its own.
MaxLen == 5

----------------------------------------------------------------------------
\* Exact rational arithmetic

Abs(n) == IF n < 0 THEN -n ELSE n

RECURSIVE GCD(_, _)
GCD(a, c) == IF c = 0 THEN a ELSE GCD(c, a % c)

Rat(n, d) ==
    LET g == GCD(Abs(n), Abs(d))
        sg == IF d < 0 THEN -1 ELSE 1
    IN  <<sg * (n \div g), sg * (d \div g)>>

RAdd(p, q) == Rat(p[1] * q[2] + q[1] * p[2], p[2] * q[2])
RSub(p, q) == Rat(p[1] * q[2] - q[1] * p[2], p[2] * q[2])
RMul(p, q) == Rat(p[1] * q[1], p[2] * q[2])
RDiv(p, q) == Rat(p[1] * q[2], p[2] * q[1])
RLess(p, q) == p[1] * q[2] < q[1] * p[2]
RZero == <<0, 1>>
ROne == <<1, 1>>

RECURSIVE RSum(_)
RSum(s) == IF s = <<>> THEN RZero ELSE RAdd(Head(s), RSum(Tail(s)))

\* Tensor elements: q * sqrt(s), or a non-finite value.
Fin(q, s) == [k |-> "fin", q |-> q, s |-> s]
Plain(q) == Fin(q, ROne)
NaN == [k |-> "nan", q |-> RZero, s |-> ROne]
PInf == [k |-> "inf", q |-> RZero, s |-> ROne]
NInf == [k |-> "ninf", q |-> RZero, s |-> ROne]

\* a - b, for values with a rational part only (raw data and its mean).
Sub(a, c) == Fin(RSub(a.q, c.q), a.s)

\* a / b as IEEE division does it: 0/0 is nan, x/0 is +-inf.
Div(a, c) ==
    IF c.q = RZero
    THEN IF a.q = RZero THEN NaN
         ELSE IF a.q[1] > 0 THEN PInf ELSE NInf
    ELSE Fin(RDiv(a.q, c.q), RDiv(a.s, c.s))

----------------------------------------------------------------------------
\* torch helpers

\* The 2*len elements of an n x 2 tensor, as a sequence.
Flat(t) == [i \in 1..(2 * Len(t)) |-> t[(i + 1) \div 2][2 - (i % 2)]]

\* Tensor.mean(): the mean of all elements.
Mean(t) ==
    LET f == Flat(t)
    IN  Plain(RDiv(RSum([i \in 1..Len(f) |-> f[i].q]), <<Len(f), 1>>))

StdBiased(t) ==
    LET f == Flat(t)
        m == Mean(t).q
        ss == RSum([i \in 1..Len(f) |-> RMul(RSub(f[i].q, m), RSub(f[i].q, m))])
        var == RDiv(ss, <<Len(f), 1>>)
    IN  IF var = RZero THEN Plain(RZero) ELSE Fin(ROne, var)

\* Tensor.std(): the unbiased standard deviation of all elements.
Std(t) ==
    LET f == Flat(t)
        m == Mean(t).q
        ss == RSum([i \in 1..Len(f) |-> RMul(RSub(f[i].q, m), RSub(f[i].q, m))])
        var == RDiv(ss, <<Len(f) - 1, 1>>)
    IN  IF var = RZero THEN Plain(RZero) ELSE Fin(ROne, var)

\* argmax of a row: the first index (from 0) holding the largest value.
ArgMax(row) ==
    (CHOOSE i \in 1..Len(row) :
        /\ \A j \in 1..Len(row) : row[j] <= row[i]
        /\ \A j \in 1..(i - 1) : row[j] < row[i]) - 1

ArgMax1(m) == [i \in 1..Len(m) |-> ArgMax(m[i])]

----------------------------------------------------------------------------
\* load_data's constants

\* r2 = 1/(2*pi) = 0.159..., held to five binary places.
r2 == Rat(5, 32)

\* center = [0.5, 0.5]
center == <<Rat(1, 2), Rat(1, 2)>>

\* The values uniform_(0, 1) is taken to produce: a point at the centre, one
\* inside the disk, one exactly on its boundary, one outside at the corner.
Samples ==
    { <<Plain(Rat(1, 2)), Plain(Rat(1, 2))>>,
      <<Plain(Rat(1, 4)), Plain(Rat(3, 8))>>,
      <<Plain(Rat(5, 8)), Plain(Rat(7, 8))>>,
      <<Plain(Rat(0, 1)), Plain(Rat(0, 1))>> }

\* x.sub(center).pow(2).sum(axis=1) for one row.
Dist2(p) ==
    LET dx == RSub(p[1].q, center[1])
        dy == RSub(p[2].q, center[2])
    IN  RAdd(RMul(dx, dx), RMul(dy, dy))

InDiskClosed(p) == ~RLess(r2, Dist2(p))

\* (... < r2) for one row.
InDisk(p) == RLess(Dist2(p), r2)

\* (X.sub(center).pow(2).sum(axis=1) < r2).long()
Classes(X) == [i \in 1..Len(X) |-> IF InDisk(X[i]) THEN 1 ELSE 0]

----------------------------------------------------------------------------
\* to_one_hot

Unique(y) == {y[i] : i \in 1..Len(y)}

\* Y = zeros(len(y), len(y.unique())); Y[range(len(y)), y] = 1.  The indexed
\* assignment raises IndexError when a class is not below the column count.
to_one_hot(y) ==
    LET cols == Cardinality(Unique(y))
    IN  IF \E i \in 1..Len(y) : y[i] >= cols
        THEN [ok |-> FALSE, Y |-> <<>>]
        ELSE [ok |-> TRUE,
              Y |-> [i \in 1..Len(y) |->
                        [c \in 1..cols |-> IF c - 1 = y[i] THEN 1 ELSE 0]]]

----------------------------------------------------------------------------
\* standardize

StdRow(row, mean, std) == [j \in 1..Len(row) |-> Div(Sub(row[j], mean), std)]

StdTensor(t, mean, std) == [i \in 1..Len(t) |-> StdRow(t[i], mean, std)]

standardize_copy(h, x, mean, std) ==
    [heap |-> ("copy" :> StdTensor(h[x], mean, std)) @@ h, ret |-> "copy"]

standardize_own(h, x, mean, std) ==
    [heap |-> [h EXCEPT ![x] = StdTensor(h[x], Mean(h[x]), Std(h[x]))], ret |-> x]

\* x.sub_(mean).div_(std): both operations write into x and return x.
standardize(h, x, mean, std) ==
    [heap |-> [h EXCEPT ![x] = StdTensor(h[x], mean, std)], ret |-> x]

----------------------------------------------------------------------------
\* pyplot

\* The figure the next drawing call draws into: the current one, or a new
\* one when there is none.
Gcf(fs, c) == IF c = 0 THEN [figs |-> Append(fs, <<>>), cur |-> Len(fs) + 1]
              ELSE [figs |-> fs, cur |-> c]

\* plt.figure(): a new, empty figure becomes the current one.
NewFigure(fs, c) == [figs |-> Append(fs, <<>>), cur |-> Len(fs) + 1]

\* Adds an artist to the current figure.
Draw(g, artist) == [g EXCEPT !.figs[g.cur] = Append(@, artist)]

\* plt.scatter(data[:,0], data[:,1], c=[...])
Scatter(data, colours) ==
    [type |-> "scatter",
     pts |-> [i \in 1..Len(data) |-> <<data[i][1], data[i][2], colours[i]>>]]

\* plt.savefig(fname)
SaveFig(fl, g, fname) == [fl EXCEPT ![fname] = g.figs[g.cur]]

FileNames == {"fig/train.png", "fig/test.png", "fig/loss.png",
              "fig/confmat.png", "fig/predictions.png"}

\* plot_dataset: scatter into the current figure, then save it.
plot_dataset(data, labels, name) ==
    LET g == Draw(Gcf(figs, cur),
                  Scatter(data, [i \in 1..Len(data) |->
                      IF ArgMax(labels[i]) = 0 THEN "r" ELSE "b"]))
    IN  /\ figs' = g.figs
        /\ cur' = g.cur
        /\ files' = SaveFig(files, g, "fig/" \o name \o ".png")

----------------------------------------------------------------------------
\* load_data

Refs == {"trainX", "testX", "trainY", "testY"}

\* Nothing allocated, drawn or saved yet.
InitLoadData ==
    /\ heap = [r \in Refs |-> <<>>]
    /\ rawTrain = <<>>
    /\ rawTest = <<>>
    /\ mean_ = NaN
    /\ std_ = NaN
    /\ ret = <<>>

InitPyplot ==
    /\ figs = <<>>
    /\ cur = 0
    /\ files = [f \in FileNames |-> <<>>]

InitVisualization ==
    /\ losses = <<>>
    /\ tvX = <<>>
    /\ tvY = <<>>
    /\ pred = <<>>
    /\ b = <<>>
    /\ conf = <<>>

InitOneHot ==
    /\ oh_y = <<>>
    /\ oh_Y = <<>>

\* A call load_data(plotting).
Init ==
    /\ pc = "gen_train"
    /\ plotting \in BOOLEAN
    /\ InitLoadData
    /\ InitPyplot
    /\ InitVisualization
    /\ InitOneHot

\* trainX = torch.FloatTensor(N, 2).uniform_(0, 1)
GenTrain ==
    /\ pc = "gen_train"
    /\ \E X \in [1..N -> Samples] :
        /\ heap' = [heap EXCEPT !["trainX"] = X]
        /\ rawTrain' = X
    /\ pc' = "gen_test"
    /\ UNCHANGED <<plotting, rawTest, mean_, std_, ret, pltVars, tvVars, ohVars>>

\* testX = torch.FloatTensor(N, 2).uniform_(0, 1)
GenTest ==
    /\ pc = "gen_test"
    /\ \E X \in [1..N -> Samples] :
        /\ heap' = [heap EXCEPT !["testX"] = X]
        /\ rawTest' = X
    /\ pc' = "label_train"
    /\ UNCHANGED <<plotting, rawTrain, mean_, std_, ret, pltVars, tvVars, ohVars>>

\* trainY = to_one_hot((trainX.sub(center).pow(2).sum(axis=1) < r2).long())
LabelTrain ==
    /\ pc = "label_train"
    /\ LET r == to_one_hot(Classes(heap["trainX"]))
       IN  IF r.ok
           THEN /\ heap' = [heap EXCEPT !["trainY"] = r.Y]
                /\ pc' = "label_test"
           ELSE /\ heap' = heap
                /\ pc' = "IndexError"
    /\ UNCHANGED <<plotting, rawTrain, rawTest, mean_, std_, ret, pltVars,
                   tvVars, ohVars>>

\* testY = to_one_hot((testX.sub(center).pow(2).sum(axis=1) < r2).long())
LabelTest ==
    /\ pc = "label_test"
    /\ LET r == to_one_hot(Classes(heap["testX"]))
       IN  IF r.ok
           THEN /\ heap' = [heap EXCEPT !["testY"] = r.Y]
                /\ pc' = "stats"
           ELSE /\ heap' = heap
                /\ pc' = "IndexError"
    /\ UNCHANGED <<plotting, rawTrain, rawTest, mean_, std_, ret, pltVars,
                   tvVars, ohVars>>

\* mean_ = trainX.mean(); std_ = trainX.std(); if plotting: ...
Stats ==
    /\ pc = "stats"
    /\ mean_' = Mean(heap["trainX"])
    /\ std_' = Std(heap["trainX"])
    /\ pc' = IF plotting THEN "plot_train" ELSE "std_train"
    /\ UNCHANGED <<plotting, heap, rawTrain, rawTest, ret, pltVars, tvVars, ohVars>>

PlotTrainStandardized ==
    /\ pc = "plot_train"
    /\ plot_dataset(standardize(heap, "trainX", mean_, std_).heap["trainX"],
                    heap["trainY"], "train")
    /\ pc' = "plot_test"
    /\ UNCHANGED <<ldVars, tvVars, ohVars>>

\* plot_dataset(trainX, trainY, 'train')
PlotTrain ==
    /\ pc = "plot_train"
    /\ plot_dataset(heap["trainX"], heap["trainY"], "train")
    /\ pc' = "plot_test"
    /\ UNCHANGED <<ldVars, tvVars, ohVars>>

\* plot_dataset(testX, testY, 'test')
PlotTest ==
    /\ pc = "plot_test"
    /\ plot_dataset(heap["testX"], heap["testY"], "test")
    /\ pc' = "std_train"
    /\ UNCHANGED <<ldVars, tvVars, ohVars>>

\* return standardize(trainX, mean_, std_), trainY, ...
StandardizeTrain ==
    /\ pc = "std_train"
    /\ LET r == standardize(heap, "trainX", mean_, std_)
       IN  /\ heap' = r.heap
           /\ ret' = <<r.ret, "trainY">>
    /\ pc' = "std_test"
    /\ UNCHANGED <<plotting, rawTrain, rawTest, mean_, std_, pltVars, tvVars, ohVars>>

\* return ..., standardize(testX, mean_, std_), testY
StandardizeTest ==
    /\ pc = "std_test"
    /\ LET r == standardize(heap, "testX", mean_, std_)
       IN  /\ heap' = r.heap
           /\ ret' = ret \o <<r.ret, "testY">>
    /\ pc' = "done"
    /\ UNCHANGED <<plotting, rawTrain, rawTest, mean_, std_, pltVars, tvVars, ohVars>>

Next ==
    \/ GenTrain
    \/ GenTest
    \/ LabelTrain
    \/ LabelTest
    \/ Stats
    \/ PlotTrain
    \/ PlotTest
    \/ StandardizeTrain
    \/ StandardizeTest

Spec == Init /\ [][Next]_vars

----------------------------------------------------------------------------
\* to_one_hot called on its own

ClassVectors == UNION {[1..n -> {0, 1}] : n \in 1..MaxLen}

\* A call to_one_hot(y), y a vector of classes 0 and 1.
InitOH ==
    /\ pc = "oh_call"
    /\ plotting = FALSE
    /\ InitLoadData
    /\ InitPyplot
    /\ InitVisualization
    /\ oh_y \in ClassVectors
    /\ oh_Y = <<>>

OneHotCall ==
    /\ pc = "oh_call"
    /\ LET r == to_one_hot(oh_y)
       IN  IF r.ok
           THEN oh_Y' = r.Y /\ pc' = "oh_done"
           ELSE oh_Y' = oh_Y /\ pc' = "IndexError"
    /\ UNCHANGED <<ldVars, pltVars, tvVars, oh_y>>

NextOH == OneHotCall

SpecOH == InitOH /\ [][NextOH]_vars

----------------------------------------------------------------------------
\* train_visualization

\* The loss values a history is made of.
LossValues == {1, 2}

\* The rows a two-output predictor returns: a score per class.
Scores == {<<1, 0>>, <<0, 1>>, <<1, 1>>}

\* The label matrices load_data returns.
LabelMatrices ==
    {to_one_hot(y).Y : y \in {v \in [1..N -> {0, 1}] : to_one_hot(v).ok}}

\* A call train_visualization(net, losses, testX, testY).
InitTV ==
    /\ pc = "tv_loss"
    /\ plotting = FALSE
    /\ InitLoadData
    /\ InitPyplot
    /\ InitOneHot
    /\ losses \in UNION {[1..n -> LossValues] : n \in 0..MaxEpochs}
    /\ tvX \in [1..N -> Samples]
    /\ tvY \in LabelMatrices
    /\ pred = <<>>
    /\ b = <<>>
    /\ conf = <<>>

Artist(type, pts) == [type |-> type, pts |-> pts]

\* plt.figure(); plt.plot(range(1, len(losses)+1), losses, 'k--'); ...;
\* plt.savefig('fig/loss.png')
TvPlotLoss ==
    /\ pc = "tv_loss"
    /\ LET g == Draw(NewFigure(figs, cur),
                     Artist("line", [i \in 1..Len(losses) |-> <<i, losses[i]>>]))
       IN  /\ figs' = g.figs
           /\ cur' = g.cur
           /\ files' = SaveFig(files, g, "fig/loss.png")
    /\ pc' = "tv_pred"
    /\ UNCHANGED <<ldVars, tvVars, ohVars>>

\* pred = net(testX).argmax(1), net any predictor with two outputs.
TvPredict ==
    /\ pc = "tv_pred"
    /\ \E out \in [1..Len(tvX) -> Scores] : pred' = ArgMax1(out)
    /\ pc' = "tv_masks"
    /\ UNCHANGED <<ldVars, pltVars, losses, tvX, tvY, b, conf, ohVars>>

MaskEither(p, t, pv, tv) == [i \in 1..Len(p) |-> (p[i] = pv) \/ (t[i] = tv)]

\* (pred == pv) & (testY.argmax(1) == tv)
Mask(p, t, pv, tv) == [i \in 1..Len(p) |-> (p[i] = pv) /\ (t[i] = tv)]

\* mask.sum()
Count(m) == Cardinality({i \in 1..Len(m) : m[i]})

\* b00, b01, b10, b11: first digit the predicted class, second the true one.
TvMasks ==
    /\ pc = "tv_masks"
    /\ LET t == ArgMax1(tvY)
       IN  b' = [b00 |-> Mask(pred, t, 0, 0),
                 b01 |-> Mask(pred, t, 0, 1),
                 b10 |-> Mask(pred, t, 1, 0),
                 b11 |-> Mask(pred, t, 1, 1)]
    /\ pc' = "tv_conf"
    /\ UNCHANGED <<ldVars, pltVars, losses, tvX, tvY, pred, conf, ohVars>>

\* conf = torch.tensor([[b00.sum(), b10.sum()], [b01.sum(), b11.sum()]])
ConfMatrix(m) ==
    <<<<Count(m.b00), Count(m.b10)>>, <<Count(m.b01), Count(m.b11)>>>>

\* plt.matshow(conf): a new figure, the element of row r and column c
\* drawn at x = c, y = r.
MatShow(fs, c, M) ==
    Draw(NewFigure(fs, c),
         Artist("image", [k \in 1..4 |->
             LET r == (k - 1) \div 2
                 col == (k - 1) % 2
             IN  <<col, r, M[r + 1][col + 1]>>]))

\* for i, j: plt.text(i, j, '{:d}'.format(conf[i,j])): conf[i,j] written at
\* x = i, y = j.
Texts(M) ==
    [k \in 1..4 |->
        LET i == (k - 1) \div 2
            j == (k - 1) % 2
        IN  Artist("text", <<<<i, j, M[i + 1][j + 1]>>>>)]

RECURSIVE DrawAll(_, _)
DrawAll(g, artists) ==
    IF artists = <<>> THEN g
    ELSE DrawAll(Draw(g, Head(artists)), Tail(artists))

\* plt.figure(); conf = ...; plt.matshow(conf); plt.text(...) four times;
\* plt.savefig('fig/confmat.png')
TvPlotConf ==
    /\ pc = "tv_conf"
    /\ conf' = ConfMatrix(b)
    /\ LET g0 == NewFigure(figs, cur)
           g == DrawAll(MatShow(g0.figs, g0.cur, conf'), Texts(conf'))
       IN  /\ figs' = g.figs
           /\ cur' = g.cur
           /\ files' = SaveFig(files, g, "fig/confmat.png")
    /\ pc' = "tv_scatter"
    /\ UNCHANGED <<ldVars, losses, tvX, tvY, pred, b, ohVars>>

\* torch.nonzero(mask): the indices the mask holds, ascending.
NonZero(m) == SelectSeq([i \in 1..Len(m) |-> i], LAMBDA i : m[i])

\* plt.scatter(testX[idx,0], testX[idx,1], c=colour)
ScatterAt(X, idx, colour) ==
    Artist("scatter", [k \in 1..Len(idx) |-> <<X[idx[k]][1], X[idx[k]][2], colour>>])

\* plt.figure(); the correct class 0 points in red, the correct class 1
\* points in blue, the errors in black; plt.savefig('fig/predictions.png')
TvPlotPredictions ==
    /\ pc = "tv_scatter"
    /\ LET errors == NonZero(b.b01) \o NonZero(b.b10)
           g == DrawAll(NewFigure(figs, cur),
                        <<ScatterAt(tvX, NonZero(b.b00), "r"),
                          ScatterAt(tvX, NonZero(b.b11), "b"),
                          ScatterAt(tvX, errors, "k")>>)
       IN  /\ figs' = g.figs
           /\ cur' = g.cur
           /\ files' = SaveFig(files, g, "fig/predictions.png")
    /\ pc' = "tv_done"
    /\ UNCHANGED <<ldVars, tvVars, ohVars>>

NextTV ==
    \/ TvPlotLoss
    \/ TvPredict
    \/ TvMasks
    \/ TvPlotConf
    \/ TvPlotPredictions

SpecTV == InitTV /\ [][NextTV]_vars

----------------------------------------------------------------------------
\* Properties of load_data

Returned == pc = "done"

\* A one-hot row marks class c: a 1 in column c, 0 in every other column.
Marks(row, c) ==
    /\ c + 1 <= Len(row)
    /\ \A k \in 1..Len(row) : row[k] = (IF k = c + 1 THEN 1 ELSE 0)

LabelOf(p) == IF RLess(Dist2(p), r2) THEN 1 ELSE 0

Range(s) == {s[i] : i \in 1..Len(s)}

\* C1: every label load_data has computed marks class 1 exactly when the raw
\* point's squared distance from (0.5, 0.5) is strictly below r2, class 0
\* otherwise (the boundary included); on return, row i of trainY/testY
\* labels row i of the returned trainX/testX.
C1_LabelsMatchDisk ==
    /\ heap["trainY"] # <<>> =>
          /\ Len(heap["trainY"]) = Len(rawTrain)
          /\ \A i \in 1..Len(rawTrain) :
                Marks(heap["trainY"][i], LabelOf(rawTrain[i]))
    /\ heap["testY"] # <<>> =>
          /\ Len(heap["testY"]) = Len(rawTest)
          /\ \A i \in 1..Len(rawTest) :
                Marks(heap["testY"][i], LabelOf(rawTest[i]))
    /\ Returned =>
          /\ ret[2] = "trainY" /\ ret[4] = "testY"
          /\ \A i \in 1..N :
                /\ heap[ret[1]][i] = StdRow(rawTrain[i], mean_, std_)
                /\ heap[ret[3]][i] = StdRow(rawTest[i], mean_, std_)

\* load_data has returned a sample holding a point of class 1, a point of
\* class 0 and a point exactly on the boundary.
C1_Witness ==
    /\ Returned
    /\ \E i \in 1..N : heap["trainY"][i] = <<0, 1>>
    /\ \E i \in 1..N : heap["trainY"][i] = <<1, 0>>
    /\ \E i \in 1..N : Dist2(rawTest[i]) = r2 /\ heap["testY"][i] = <<1, 0>>

\* C3: load_data returns normally for every sample, and trainY and testY
\* each have one row per point and exactly two columns.
C3_AlwaysTwoColumns ==
    /\ pc # "IndexError"
    /\ Returned =>
          \A r \in {"trainY", "testY"} :
              /\ Len(heap[r]) = N
              /\ \A i \in 1..N : Len(heap[r][i]) = 2

\* C4: every returned coordinate, training and test, is
\* (raw value - train mean) / train std, with the mean and the standard
\* deviation those of the raw training coordinates.
C4_TrainStatisticsForBoth ==
    (pc \in {"plot_train", "plot_test", "std_train", "std_test", "done"} =>
        /\ mean_ = Mean(rawTrain)
        /\ std_ = Std(rawTrain))
    /\ (Returned =>
        \A i \in 1..N : \A j \in 1..2 :
            /\ heap[ret[1]][i][j] =
                  Div(Sub(rawTrain[i][j], Mean(rawTrain)), Std(rawTrain))
            /\ heap[ret[3]][i][j] =
                  Div(Sub(rawTest[i][j], Mean(rawTrain)), Std(rawTrain)))

\* load_data has returned sets whose own statistics differ.
C4_Witness ==
    /\ Returned
    /\ Mean(rawTest) # Mean(rawTrain)
    /\ Std(rawTest) # Std(rawTrain)
    /\ std_.q # RZero

\* Every element is finite.
Finite(t) == \A i \in 1..Len(t) : \A j \in 1..2 : t[i][j].k = "fin"

\* The mean of the elements of a finite tensor whose elements share their
\* root part: its rational part.
MeanQ(t) ==
    LET f == Flat(t)
    IN  RDiv(RSum([i \in 1..Len(f) |-> f[i].q]), <<Len(f), 1>>)

\* The (unbiased) variance of the elements of such a tensor.
Var(t) ==
    LET f == Flat(t)
        m == MeanQ(t)
        ss == RSum([i \in 1..Len(f) |-> RMul(RSub(f[i].q, m), RSub(f[i].q, m))])
    IN  RMul(RDiv(ss, <<Len(f) - 1, 1>>), f[1].s)

ZeroMeanUnitVar(t) == Finite(t) /\ MeanQ(t) = RZero /\ Var(t) = ROne

\* C5 as claimed: the returned training set and the returned test set each
\* have zero mean and unit variance.
C5_BothSetsStandard ==
    Returned /\ std_.q # RZero =>
        /\ ZeroMeanUnitVar(heap[ret[1]])
        /\ ZeroMeanUnitVar(heap[ret[3]])

\* C5 amended: when the training standard deviation is not zero, the
\* returned training set has zero mean and unit variance; the returned test
\* set has mean (test mean - train mean) / train std and variance
\* test variance / train variance, zero and one only when the raw test
\* statistics equal the raw training statistics.
C5_TrainSetStandard ==
    Returned /\ std_.q # RZero =>
        /\ ZeroMeanUnitVar(heap[ret[1]])
        /\ Finite(heap[ret[3]])
        /\ (MeanQ(heap[ret[3]]) = RZero) <=> (MeanQ(rawTest) = MeanQ(rawTrain))
        /\ (Var(heap[ret[3]]) = ROne) <=> (Var(rawTest) = Var(rawTrain))

\* load_data has returned a test set whose raw mean is not the training mean.
C5_Witness ==
    /\ Returned
    /\ std_.q # RZero
    /\ MeanQ(rawTest) # MeanQ(rawTrain)
    /\ Var(rawTest) # Var(rawTrain)

\* What a step taken at a standardize call does.
StandardizeFrame ==
    pc \in {"std_train", "std_test"} =>
        LET x == IF pc = "std_train" THEN "trainX" ELSE "testX"
            k == IF pc = "std_train" THEN 1 ELSE 3
        IN  /\ ret'[k] = x
            /\ ret'[k + 1] = (IF pc = "std_train" THEN "trainY" ELSE "testY")
            /\ heap'[x] = StdTensor(heap[x], mean_, std_)
            /\ DOMAIN heap' = DOMAIN heap
            /\ \A r \in DOMAIN heap \ {x} : heap'[r] = heap[r]
            /\ mean_' = mean_
            /\ std_' = std_

\* C7: each standardize call overwrites the tensor it is given and returns
\* that same tensor; mean_, std_ and every other tensor, the label matrices
\* included, are left as they were.
C7_StandardizeInPlace == [][StandardizeFrame]_vars

\* load_data has returned tensors that standardization changed.
C7_Witness ==
    /\ Returned
    /\ ret = <<"trainX", "trainY", "testX", "testY">>
    /\ heap["trainX"] # rawTrain
    /\ heap["testX"] # rawTest
    /\ heap["trainY"] = to_one_hot(Classes(rawTrain)).Y

InUnitInterval(v) ==
    /\ v.k = "fin"
    /\ v.s = ROne
    /\ ~RLess(v.q, RZero)
    /\ ~RLess(ROne, v.q)

Points(fig) ==
    UNION { {<<fig[a].pts[i][1], fig[a].pts[i][2]>> : i \in 1..Len(fig[a].pts)} :
            a \in {c \in 1..Len(fig) : fig[c].type = "scatter"} }

\* C8: while plot_dataset is still to be called the coordinate tensors hold
\* the raw values; every point saved to fig/train.png and fig/test.png is a
\* raw generated point lying in the unit square; with plotting false nothing
\* is drawn or saved.
C8_PlotsBeforeStandardize ==
    /\ pc \in {"plot_train", "plot_test"} =>
          heap["trainX"] = rawTrain /\ heap["testX"] = rawTest
    /\ \A f \in {"fig/train.png", "fig/test.png"} :
          \A p \in Points(files[f]) :
              /\ InUnitInterval(p[1]) /\ InUnitInterval(p[2])
              /\ p \in Range(rawTrain) \cup Range(rawTest)
    /\ Range(rawTrain) \subseteq Points(files["fig/train.png"])
          \/ files["fig/train.png"] = <<>>
    /\ Range(rawTest) \subseteq Points(files["fig/test.png"])
          \/ files["fig/test.png"] = <<>>
    /\ ~plotting => figs = <<>> /\ \A f \in FileNames : files[f] = <<>>

\* load_data(plotting=True) has returned, both files written.
C8_Witness ==
    /\ Returned
    /\ plotting
    /\ heap["trainX"] # rawTrain
    /\ files["fig/train.png"] # <<>>
    /\ files["fig/test.png"] # <<>>

\* C10: after load_data(plotting=True), fig/test.png holds exactly the test
\* points: one scatter of the N test points and nothing drawn by the
\* earlier call.
C10_TestFigureHoldsOnlyTestPoints ==
    Returned /\ plotting =>
        /\ Len(files["fig/test.png"]) = 1
        /\ \A i \in 1..N :
              <<files["fig/test.png"][1].pts[i][1],
                files["fig/test.png"][1].pts[i][2]>> = rawTest[i]

----------------------------------------------------------------------------
\* Properties of to_one_hot

RECURSIVE SumSeq(_)
SumSeq(s) == IF s = <<>> THEN 0 ELSE Head(s) + SumSeq(Tail(s))

\* C2: to_one_hot(y) returns a matrix with len(y) rows and as many columns
\* as y has distinct values, row i holding a 1 in column y[i] and 0
\* elsewhere, so that every row sums to 1.
C2_OneHotOfEveryVector ==
    /\ pc # "IndexError"
    /\ pc = "oh_done" =>
          /\ Len(oh_Y) = Len(oh_y)
          /\ \A i \in 1..Len(oh_y) :
                /\ Len(oh_Y[i]) = Cardinality(Unique(oh_y))
                /\ Marks(oh_Y[i], oh_y[i])
                /\ SumSeq(oh_Y[i]) = 1

----------------------------------------------------------------------------
\* Properties of train_visualization

\* The number of test points of true class t predicted as class p.
Cell(t, p) ==
    Cardinality({i \in 1..Len(tvY) : ArgMax(tvY[i]) = t /\ pred[i] = p})

\* C6: once the masks are computed, every test point is in exactly one of
\* b00, b01, b10, b11, and the four counts sum to the number of test points.
C6_CountsSumToTestSize ==
    pc \in {"tv_conf", "tv_scatter", "tv_done"} =>
        /\ \A i \in 1..Len(tvY) :
              Cardinality({m \in {"b00", "b01", "b10", "b11"} : b[m][i]}) = 1
        /\ Count(b.b00) + Count(b.b01) + Count(b.b10) + Count(b.b11) = Len(tvY)
        /\ pc # "tv_conf" =>
              conf[1][1] + conf[1][2] + conf[2][1] + conf[2][2] = Len(tvX)

\* train_visualization has finished on a test set with a correct and a
\* wrong prediction.
C6_Witness ==
    /\ pc = "tv_done"
    /\ Count(b.b00) + Count(b.b11) > 0
    /\ Count(b.b01) + Count(b.b10) > 0

\* What the saved confusion-matrix figure shows at plot position (x, y).
Shown(type, x, y) ==
    LET fig == files["fig/confmat.png"]
        a == CHOOSE a \in 1..Len(fig) :
                /\ fig[a].type = type
                /\ \E k \in 1..Len(fig[a].pts) :
                      fig[a].pts[k][1] = x /\ fig[a].pts[k][2] = y
        k == CHOOSE k \in 1..Len(fig[a].pts) :
                fig[a].pts[k][1] = x /\ fig[a].pts[k][2] = y
    IN  fig[a].pts[k][3]

\* C9: in the saved confusion-matrix figure the number written at (x, y) is
\* the count matshow colours at (x, y), and both are the number of test
\* points of true class x and predicted class y.
C9_TextMatchesColour ==
    pc = "tv_done" =>
        \A x \in 0..1 : \A y \in 0..1 :
            /\ Shown("text", x, y) = Shown("image", x, y)
            /\ Shown("text", x, y) = Cell(x, y)

====
